---- MODULE Spec2Model ----
(***************************************************************************)
(* Model of the pattern-matching elaboration pass                          *)
(* (src/term/transform/encode_pattern_matching.rs).                        *)
(*                                                                         *)
(* The pass is a recursive tree transformation over one mutable Book.  The *)
(* recursion of make_pattern_matching_case is unfolded into an explicit    *)
(* call stack: one frame per pending call of the driver and one frame per  *)
(* pending tail of a branch / pass-through builder (the code that runs     *)
(* after the recursive calls returned).  Terms, patterns and generated     *)
(* names are built exactly as the code builds them, and a call-by-name     *)
(* abstract machine evaluates the generated terms.                         *)
(***************************************************************************)
EXTENDS Integers, Sequences, FiniteSets, TLC

VARIABLES
  book,       \* Book.defs / Book.def_names: name -> [rules]
  def_types,  \* DefinitionTypes: name -> sequence of parameter types
  orig,       \* the rules of the input program (never written by the pass)
  todo,       \* the def ids still to be visited by the loop of line 8
  crnt_def,   \* the definition make_pattern_matching_def is compiling
  stack,      \* pending calls, top first
  status,     \* "run", "done", or the panic that aborted the pass
  log         \* history of builder calls and of installations

vars == <<book, def_types, orig, todo, crnt_def, stack, status, log>>

\* Bounds of the explored inputs.
MaxRules == 2
MaxArity == 2
\* Bound on the steps of the abstract machine (generated terms do not recurse).
MaxSteps == 60

(***************************************************************************)
(* Data model: Term, RulePat, Rule, Type, Adt                              *)
(***************************************************************************)
TermEra == [t |-> "Era"]
TermLam(nam, bod) == [t |-> "Lam", nam |-> nam, bod |-> bod]
TermApp(fun, arg) == [t |-> "App", fun |-> fun, arg |-> arg]
TermVar(nam) == [t |-> "Var", nam |-> nam]
TermRef(def_id) == [t |-> "Ref", nam |-> def_id]

RulePatVar(nam) == [k |-> "Var", nam |-> nam, vars |-> <<>>]
RulePatCtr(nam, fields) == [k |-> "Ctr", nam |-> nam, vars |-> fields]

Rule(pats, body) == [pats |-> pats, body |-> body]

TypeAny == [k |-> "Any", nam |-> ""]
TypeAdt(nam) == [k |-> "Adt", nam |-> nam]

\* book.adts: the one ADT of the explored programs, constructors in declared order.
Adts == [List |-> <<[nam |-> "Nil", ari |-> 0], [nam |-> "Cons", ari |-> 2]>>]

CtrNames(adt) == {Adts[adt][i].nam : i \in 1..Len(Adts[adt])}

CtrArity(adt, ctr) ==
  LET S == {i \in 1..Len(Adts[adt]) : Adts[adt][i].nam = ctr}
  IN IF S = {} THEN 0 ELSE Adts[adt][CHOOSE i \in S : TRUE].ari

\* Decimal rendering of a usize, as format!("{n}") renders it.
Digits == <<"0", "1", "2", "3", "4", "5", "6", "7", "8", "9">>

RECURSIVE Str(_)
Str(n) == IF n < 10 THEN Digits[n + 1] ELSE Str(n \div 10) \o Digits[(n % 10) + 1]

RECURSIVE Repeat(_, _)
Repeat(x, n) == IF n = 0 THEN <<>> ELSE <<x>> \o Repeat(x, n - 1)

Min(a, b) == IF a < b THEN a ELSE b

(***************************************************************************)
(* Generated names                                                         *)
(***************************************************************************)
make_rule_name_same(def_name, rule_idx) == def_name \o "$R"

make_rule_name(def_name, rule_idx) == def_name \o "$R" \o Str(rule_idx)

make_next_fn_name(crnt_name, ctr_name) == crnt_name \o "$P" \o ctr_name

nxt_def_name(crnt_name) == crnt_name \o "$P"

\* use_var / make_var: the name of the variable numbered counter.
VarName(counter) == "x" \o Str(counter)

(***************************************************************************)
(* Book operations                                                         *)
(***************************************************************************)
\* The definition table is keyed by name: def_names maps names to ids one to
\* one, so a DefId is modelled by the name it stands for and a Term::Ref holds
\* that name.  Book::insert_def on a name the table does not hold yet.
insert_def(bk, nam, rules) == (nam :> [rules |-> rules]) @@ bk

add_case_to_book_keep(bk, nam, body) ==
  IF nam \in DOMAIN bk
    THEN [bk EXCEPT ![nam].rules = @ \o <<Rule(<<>>, body)>>]
    ELSE insert_def(bk, nam, <<Rule(<<>>, body)>>)

add_case_to_book(bk, nam, body) ==
  IF nam \in DOMAIN bk
    THEN [bk EXCEPT ![nam].rules = <<Rule(<<>>, body)>>]
    ELSE insert_def(bk, nam, <<Rule(<<>>, body)>>)

\* Rule::arity
arity(rule) == Len(rule.pats)

(***************************************************************************)
(* Rule-body extractor                                                     *)
(***************************************************************************)
\* The inner loop of make_rule_body: one lambda per field, last field innermost.
RECURSIVE LamFields(_, _, _)
LamFields(body, fields, m) ==
  IF m = 0 THEN body ELSE LamFields(TermLam(fields[m].nam, body), fields, m - 1)

RECURSIVE make_rule_body_from(_, _, _)
make_rule_body_from(body, pats, j) ==
  IF j = 0 THEN body
  ELSE IF pats[j].k = "Var"
    THEN make_rule_body_from(TermLam(pats[j].nam, body), pats, j - 1)
    ELSE make_rule_body_from(LamFields(body, pats[j].vars, Len(pats[j].vars)), pats, j - 1)

make_rule_body(body, pats) == make_rule_body_from(body, pats, Len(pats))

(***************************************************************************)
(* Leaf builder                                                            *)
(***************************************************************************)
\* n applications to the variables numbered counter, counter+1, ... (use_var).
RECURSIVE AppVars(_, _, _)
AppVars(term, n, counter) ==
  IF n = 0 THEN term
  ELSE AppVars(TermApp(term, TermVar(VarName(counter))), n - 1, counter + 1)

\* n lambdas, each naming the variable below the counter (make_var); the first
\* one made is the innermost.
RECURSIVE LamVars(_, _, _)
LamVars(term, n, counter) ==
  IF n = 0 THEN term
  ELSE LamVars(TermLam(VarName(counter - 1), term), n - 1, counter - 1)

\* The number of variables a committed pattern stands for.
PatVars(pat) == IF pat.k = "Var" THEN 1 ELSE Len(pat.vars)

\* One step of the fold of lines 146-163, for the pair (matched, pat).
LeafArg(bk, acc, matched, pat) ==
  IF acc.panic # "" THEN acc
  ELSE IF matched.k = "Var" /\ pat.k = "Var"
    THEN [acc EXCEPT !.term = AppVars(acc.term, 1, acc.counter),
                     !.counter = acc.counter + 1]
  ELSE IF matched.k = "Ctr" /\ pat.k = "Ctr"
    THEN [acc EXCEPT !.term = AppVars(acc.term, Len(matched.vars), acc.counter),
                     !.counter = acc.counter + Len(matched.vars)]
  ELSE IF matched.k = "Ctr" /\ pat.k = "Var"
    THEN IF matched.nam \notin DOMAIN bk
           THEN [acc EXCEPT !.panic = "unwrap:156"]
           ELSE [acc EXCEPT
                   !.term = TermApp(acc.term,
                              AppVars(TermRef(matched.nam), Len(matched.vars), acc.counter)),
                   !.counter = acc.counter + Len(matched.vars)]
  ELSE [acc EXCEPT !.panic = "unreachable:161"]

RECURSIVE LeafApps(_, _, _, _, _, _)
LeafApps(bk, acc, match_path, pats, j, n) ==
  IF j > n THEN acc
  ELSE LeafApps(bk, LeafArg(bk, acc, match_path[j], pats[j]), match_path, pats, j + 1, n)

\* The fold of lines 166-171 over the reversed path.
RECURSIVE PathLams(_, _, _, _)
PathLams(term, counter, match_path, j) ==
  IF j = 0 THEN term
  ELSE PathLams(LamVars(term, PatVars(match_path[j]), counter),
                counter - PatVars(match_path[j]), match_path, j - 1)

\* make_leaf_pattern_matching_case up to the installation: the term built, or
\* the panic that stops the build.
LeafTerm(bk, def_name, rule_idx, match_path, pats) ==
  LET rule_def_name == make_rule_name(def_name, rule_idx)
      start == [term |-> TermRef(rule_def_name), counter |-> 0, panic |-> ""]
      apps == LeafApps(bk, start, match_path, pats, 1, Min(Len(match_path), Len(pats)))
  IN IF rule_def_name \notin DOMAIN bk
       THEN [start EXCEPT !.panic = "unwrap:125"]
     ELSE IF apps.panic # "" THEN apps
     ELSE [apps EXCEPT !.term = PathLams(apps.term, apps.counter, match_path, Len(match_path))]

(***************************************************************************)
(* Branch builder                                                          *)
(***************************************************************************)
filter_rules_all(def_rules, crnt_rules, arg_idx, ctr) == crnt_rules

filter_rules_ctr_only(def_rules, crnt_rules, arg_idx, ctr) ==
  SelectSeq(crnt_rules,
            LAMBDA rule_idx :
              LET pat == def_rules[rule_idx + 1].pats[arg_idx + 1]
              IN pat.k = "Ctr" /\ pat.nam = ctr)

filter_rules(def_rules, crnt_rules, arg_idx, ctr) ==
  SelectSeq(crnt_rules,
            LAMBDA rule_idx :
              LET pat == def_rules[rule_idx + 1].pats[arg_idx + 1]
              IN IF pat.k = "Var" THEN TRUE ELSE pat.nam = ctr)

\* The fold of lines 226-230: the scrutinee applied to one reference per
\* constructor, in the order next_ctrs iterates.
RECURSIVE CtrRefsRev(_, _, _, _)
CtrRefsRev(term, crnt_name, next_ctrs, i) ==
  IF i > Len(next_ctrs) THEN term
  ELSE TermApp(CtrRefsRev(term, crnt_name, next_ctrs, i + 1),
               TermRef(make_next_fn_name(crnt_name, next_ctrs[i].nam)))

RECURSIVE CtrRefs(_, _, _, _)
CtrRefs(term, crnt_name, next_ctrs, i) ==
  IF i > Len(next_ctrs) THEN term
  ELSE CtrRefs(TermApp(term, TermRef(make_next_fn_name(crnt_name, next_ctrs[i].nam))),
               crnt_name, next_ctrs, i + 1)

\* The fold of lines 235-240: one applied variable per committed variable.
RECURSIVE PathApps(_, _, _, _)
PathApps(acc, match_path, j, n) ==
  IF j > n THEN acc
  ELSE PathApps([term |-> AppVars(acc.term, PatVars(match_path[j]), acc.counter),
                 counter |-> acc.counter + PatVars(match_path[j])],
                match_path, j + 1, n)

\* Lines 224-249: the dispatcher installed at crnt_name.
BranchTerm(crnt_name, next_ctrs, match_path) ==
  LET refs == CtrRefs(TermVar("x"), crnt_name, next_ctrs, 1)
      apps == PathApps([term |-> refs, counter |-> 0], match_path, 1, Len(match_path))
      lams == PathLams(apps.term, apps.counter, match_path, Len(match_path))
  IN TermLam("x", lams)

\* Lines 214-222: the calls of the driver the branch builder makes, one per
\* constructor, in the order next_ctrs iterates.
BranchCalls(def_rules, crnt_name, crnt_rules, match_path, next_ctrs) ==
  [i \in 1..Len(next_ctrs) |->
     [op |-> "case",
      name |-> make_next_fn_name(crnt_name, next_ctrs[i].nam),
      rules |-> filter_rules(def_rules, crnt_rules, Len(match_path), next_ctrs[i].nam),
      path |-> Append(match_path,
                      RulePatCtr(next_ctrs[i].nam, Repeat(RulePatVar(""), next_ctrs[i].ari))),
      from |-> crnt_rules]]

(***************************************************************************)
(* Pass-through builder                                                    *)
(***************************************************************************)
\* Lines 272-284.
PassTerm(crnt_name) ==
  TermLam("x", TermLam("nxt",
    TermApp(TermApp(TermRef(nxt_def_name(crnt_name)), TermVar("nxt")), TermVar("x"))))

\* Lines 267-268: the call of the driver the pass-through builder makes.
PassCall(crnt_name, crnt_rules, match_path) ==
  [op |-> "case",
   name |-> nxt_def_name(crnt_name),
   rules |-> crnt_rules,
   path |-> Append(match_path, RulePatVar("x")),
   from |-> crnt_rules]

(***************************************************************************)
(* Input programs                                                          *)
(***************************************************************************)
\* The Scott-encoding wrapper of a constructor: a zero-pattern definition
\* taking the fields, then one continuation per constructor of its type.
RECURSIVE LamNames(_, _, _)
LamNames(term, names, i) ==
  IF i = 0 THEN term ELSE LamNames(TermLam(names[i], term), names, i - 1)

RECURSIVE AppNames(_, _, _)
AppNames(term, names, i) ==
  IF i > Len(names) THEN term ELSE AppNames(TermApp(term, TermVar(names[i])), names, i + 1)

CtrWrapper(adt, ctr) ==
  LET fields == [m \in 1..CtrArity(adt, ctr) |-> "a" \o Str(m - 1)]
      conts == [i \in 1..Len(Adts[adt]) |-> Adts[adt][i].nam]
  IN LamNames(LamNames(AppNames(TermVar(ctr), fields, 1), conts, Len(conts)),
              fields, Len(fields))

\* The pattern of parameter j (0-based) that a choice "Var" or <constructor>
\* stands for, with its own pattern variables.
FieldNames(j, n) == [m \in 1..n |-> "p" \o Str(j) \o "f" \o Str(m - 1)]

MkPat(j, choice) ==
  IF choice = "Var" THEN RulePatVar("p" \o Str(j))
  ELSE RulePatCtr(choice,
         [m \in 1..CtrArity("List", choice) |->
            RulePatVar(FieldNames(j, CtrArity("List", choice))[m])])

\* The variables a rule's patterns bind, left to right.
RECURSIVE BoundNames(_, _)
BoundNames(pats, j) ==
  IF j > Len(pats) THEN <<>>
  ELSE (IF pats[j].k = "Var" THEN <<pats[j].nam>>
        ELSE [m \in 1..Len(pats[j].vars) |-> pats[j].vars[m].nam])
       \o BoundNames(pats, j + 1)

BodyName(def_name, rule_idx) == def_name \o "_body" \o Str(rule_idx)

\* Rule rule_idx of def_name: its body is an opaque head applied to every
\* variable the patterns bind.
MkRule(def_name, rule_idx, choices) ==
  LET pats == [j \in 1..Len(choices) |-> MkPat(j - 1, choices[j])]
  IN Rule(pats, AppNames(TermVar(BodyName(def_name, rule_idx)), BoundNames(pats, 1), 1))

MkRules(def_name, shape) == [i \in 1..Len(shape) |-> MkRule(def_name, i - 1, shape[i])]

PatMatches(choice, ctr) == choice = "Var" \/ choice = ctr

RuleMatches(choices, tuple) == \A j \in 1..Len(choices) : PatMatches(choices[j], tuple[j])

Tuples(n) == [1..n -> CtrNames("List")]

Exhaustive(shape, n) ==
  \A tuple \in Tuples(n) : \E i \in 1..Len(shape) : RuleMatches(shape[i], tuple)

KnownCtrs(shape) ==
  \A i \in 1..Len(shape) : \A j \in 1..Len(shape[i]) :
    shape[i][j] \in {"Var"} \cup CtrNames("List")

Shapes(choices) ==
  UNION {[1..r -> [1..n -> choices]] : r \in 1..MaxRules, n \in 1..MaxArity}

\* The second definition of the program: one that does not match, or one that does.
GShapes == << <<<<"Var", "Var">>>>, <<<<"Cons">>, <<"Var">>>> >>
GTypes == << <<TypeAny, TypeAny>>, <<TypeAdt("List")>> >>

\* The program holds the two constructor wrappers and the definitions f and g;
\* the loop of line 8 visits them in this order.  The wrappers have no
\* parameters, so the pass treats them as definitions that do not match.
InitWith(shape, g) ==
  /\ book = [nam \in {"Nil", "Cons", "f", "g"} |->
              IF nam = "f" THEN [rules |-> MkRules("f", shape)]
              ELSE IF nam = "g" THEN [rules |-> MkRules("g", GShapes[g])]
              ELSE [rules |-> <<Rule(<<>>, CtrWrapper("List", nam))>>]]
  /\ def_types = [nam \in {"Nil", "Cons", "f", "g"} |->
                   IF nam = "f" THEN [j \in 1..Len(shape[1]) |-> TypeAdt("List")]
                   ELSE IF nam = "g" THEN GTypes[g]
                   ELSE <<>>]
  /\ orig = [f |-> shape, g |-> GShapes[g]]
  /\ todo = <<"Nil", "Cons", "f", "g">>
  /\ crnt_def = ""
  /\ stack = <<>>
  /\ status = "run"
  /\ log = <<>>

\* Programs that satisfy the input contract: equal arity, known constructors,
\* exhaustive rules.
Init ==
  \E shape \in {sh \in Shapes({"Var", "Nil", "Cons"}) : Exhaustive(sh, Len(sh[1]))},
     g \in 1..Len(GShapes) :
    InitWith(shape, g)

\* Programs that break the contract: a constructor the ADT does not have, or
\* rules that are not exhaustive.
InitBad ==
  \E shape \in {sh \in Shapes({"Var", "Nil", "Cons", "Foo"}) :
                  ~KnownCtrs(sh) \/ ~Exhaustive(sh, Len(sh[1]))},
     g \in 1..Len(GShapes) :
    InitWith(shape, g)

(***************************************************************************)
(* The pass                                                                *)
(***************************************************************************)
LogEntry(op, top, rule, how) ==
  [op |-> op, name |-> top.name, def |-> crnt_def, rule |-> rule, rules |-> top.rules,
   path |-> top.path, how |-> how]

\* Which arm of add_case_to_book a name takes.
How(bk, nam) == IF nam \in DOMAIN bk THEN "overwrite" ELSE "insert"

Panic(why) ==
  /\ status' = why
  /\ UNCHANGED <<book, def_types, orig, todo, crnt_def, stack>>

\* Line 11.
is_matching_def(def_type) == \E i \in 1..Len(def_type) : def_type[i].k = "Adt"

\* Lines 45-49: every rule body of the definition replaced by Era.
ErasedBodies(rules) == [i \in 1..Len(rules) |-> [rules[i] EXCEPT !.body = TermEra]]

\* Lines 50-53: the rule-body definitions inserted for rules from..Len(rules)
\* (1-based), named by their 0-based index.
RECURSIVE RuleBodyDefsFrom(_, _, _, _)
RuleBodyDefsFrom(bk, def_name, rules, from) ==
  IF from > Len(rules) THEN bk
  ELSE RuleBodyDefsFrom(
         insert_def(bk, make_rule_name(def_name, from - 1),
                    <<Rule(<<>>, make_rule_body(rules[from].body, rules[from].pats))>>),
         def_name, rules, from + 1)

RuleBodyDefsSkipFirst(bk, def_name, rules) == RuleBodyDefsFrom(bk, def_name, rules, 2)

RuleBodyDefs(bk, def_name, rules) == RuleBodyDefsFrom(bk, def_name, rules, 1)

RuleBodyLog(bk, def_name, rules) ==
  [i \in 1..Len(rules) |->
     [op |-> "rule_body", name |-> make_rule_name(def_name, i - 1), def |-> def_name,
      rule |-> i - 1, rules |-> <<>>, path |-> <<>>,
      how |-> IF \/ make_rule_name(def_name, i - 1) \in DOMAIN bk
                 \/ \E h \in 1..(i - 1) :
                      make_rule_name(def_name, h - 1) = make_rule_name(def_name, i - 1)
              THEN "collision" ELSE "insert"]]

\* make_pattern_matching_def up to its call of the driver (lines 38-56).
StartMatchingDef ==
  /\ status = "run" /\ stack = <<>> /\ todo # <<>>
  /\ is_matching_def(def_types[Head(todo)])
  /\ LET def_name == Head(todo)
         rules == book[def_name].rules
     IN /\ book' = RuleBodyDefs([book EXCEPT ![def_name].rules = ErasedBodies(rules)],
                                def_name, rules)
        /\ log' = log \o RuleBodyLog(book, def_name, rules)
        /\ crnt_def' = def_name
        /\ stack' = <<[op |-> "case", name |-> def_name,
                       rules |-> [i \in 1..Len(rules) |-> i - 1],
                       path |-> <<>>, from |-> [i \in 1..Len(rules) |-> i - 1]]>>
  /\ todo' = Tail(todo)
  /\ UNCHANGED <<def_types, orig, status>>

\* The loop of lines 27-31 over the reversed patterns.
RECURSIVE MoveArgs(_, _, _)
MoveArgs(body, pats, j) ==
  IF j = 0 THEN body ELSE MoveArgs(TermLam(pats[j].nam, body), pats, j - 1)

\* Lines 26-32 on rule 0.
NonMatchingRule(rule) == Rule(<<>>, MoveArgs(rule.body, rule.pats, Len(rule.pats)))

\* make_non_pattern_matching_def (lines 24-33).
NonMatchingDef ==
  /\ status = "run" /\ stack = <<>> /\ todo # <<>>
  /\ ~is_matching_def(def_types[Head(todo)])
  /\ LET def_name == Head(todo)
         rules == book[def_name].rules
     IN IF rules = <<>>
          THEN Panic("unwrap:26") /\ UNCHANGED log
        ELSE IF \E j \in 1..Len(rules[1].pats) : rules[1].pats[j].k # "Var"
          THEN Panic("unreachable:28") /\ UNCHANGED log
        ELSE /\ book' = [book EXCEPT ![def_name].rules[1] = NonMatchingRule(rules[1])]
             /\ todo' = Tail(todo)
             /\ UNCHANGED <<def_types, orig, crnt_def, stack, status, log>>

\* Lines 95-97.
is_fst_rule_irrefutable(fst_rule, crnt_arg_idx) ==
  \/ crnt_arg_idx >= arity(fst_rule)
  \/ \A j \in (crnt_arg_idx + 1)..Len(fst_rule.pats) : fst_rule.pats[j].k = "Var"

\* Lines 103-104.
is_matching_case(def_rules, crnt_rules, crnt_arg_idx) ==
  \E r \in 1..Len(crnt_rules) : def_rules[crnt_rules[r] + 1].pats[crnt_arg_idx + 1].k = "Ctr"

\* make_pattern_matching_case (lines 79-113) and, through it, the builder it
\* selects: the whole leaf builder, or the branch / pass-through builder up to
\* and including its recursive calls, which are pushed as pending calls.
MakePatternMatchingCase ==
  /\ status = "run" /\ stack # <<>> /\ Head(stack).op = "case"
  /\ LET top == Head(stack)
         def_rules == book[crnt_def].rules
         crnt_arg_idx == Len(top.path)
     IN IF top.rules = <<>>
          THEN Panic("index:89") /\ UNCHANGED log
        ELSE
          LET fst_rule_idx == top.rules[1]
              fst_rule == def_rules[fst_rule_idx + 1]
          IN IF is_fst_rule_irrefutable(fst_rule, crnt_arg_idx)
               THEN LET leaf == LeafTerm(book, crnt_def, fst_rule_idx, top.path, fst_rule.pats)
                    IN IF leaf.panic # ""
                         THEN /\ Panic(leaf.panic)
                              /\ log' = Append(log, LogEntry("leaf", top, fst_rule_idx, "panic"))
                         ELSE /\ book' = add_case_to_book(book, top.name, leaf.term)
                              /\ log' = Append(log, LogEntry("leaf", top, fst_rule_idx,
                                                             How(book, top.name)))
                              /\ stack' = Tail(stack)
                              /\ UNCHANGED <<def_types, orig, todo, crnt_def, status>>
             ELSE IF is_matching_case(def_rules, top.rules, crnt_arg_idx)
               THEN IF def_types[crnt_def][crnt_arg_idx + 1].k # "Adt"
                      THEN Panic("unreachable:209") /\ UNCHANGED log
                      ELSE /\ stack' =
                                BranchCalls(def_rules, top.name, top.rules, top.path,
                                            Adts[def_types[crnt_def][crnt_arg_idx + 1].nam])
                                \o <<[top EXCEPT !.op = "branch"]>> \o Tail(stack)
                           /\ UNCHANGED <<book, def_types, orig, todo, crnt_def, status, log>>
             ELSE /\ stack' = <<PassCall(top.name, top.rules, top.path),
                                [top EXCEPT !.op = "pass"]>> \o Tail(stack)
                  /\ UNCHANGED <<book, def_types, orig, todo, crnt_def, status, log>>

\* The tail of make_branch_pattern_matching_case, after its recursive calls
\* returned (lines 224-251).
BranchFinish ==
  /\ status = "run" /\ stack # <<>> /\ Head(stack).op = "branch"
  /\ LET top == Head(stack)
         next_ctrs == Adts[def_types[crnt_def][Len(top.path) + 1].nam]
     IN IF \E i \in 1..Len(next_ctrs) :
             make_next_fn_name(top.name, next_ctrs[i].nam) \notin DOMAIN book
          THEN Panic("unwrap:228") /\ UNCHANGED log
          ELSE /\ book' = add_case_to_book(book, top.name,
                                           BranchTerm(top.name, next_ctrs, top.path))
               /\ log' = Append(log, LogEntry("branch", top, -1, How(book, top.name)))
               /\ stack' = Tail(stack)
               /\ UNCHANGED <<def_types, orig, todo, crnt_def, status>>

\* The tail of make_non_pattern_matching_case, after its recursive call
\* returned (lines 270-285).
PassFinish ==
  /\ status = "run" /\ stack # <<>> /\ Head(stack).op = "pass"
  /\ LET top == Head(stack)
     IN IF nxt_def_name(top.name) \notin DOMAIN book
          THEN Panic("unwrap:271") /\ UNCHANGED log
          ELSE /\ book' = add_case_to_book(book, top.name, PassTerm(top.name))
               /\ log' = Append(log, LogEntry("pass", top, -1, How(book, top.name)))
               /\ stack' = Tail(stack)
               /\ UNCHANGED <<def_types, orig, todo, crnt_def, status>>

\* The loop of line 8 has visited every definition.
Finish ==
  /\ status = "run" /\ stack = <<>> /\ todo = <<>>
  /\ status' = "done"
  /\ UNCHANGED <<book, def_types, orig, todo, crnt_def, stack, log>>

Next ==
  \/ StartMatchingDef
  \/ NonMatchingDef
  \/ MakePatternMatchingCase
  \/ BranchFinish
  \/ PassFinish
  \/ Finish

Spec == Init /\ [][Next]_vars

SpecBad == InitBad /\ [][Next]_vars

(***************************************************************************)
(* Evaluation of the generated terms                                       *)
(***************************************************************************)
\* A closure is a term with the environment that binds its free variables; a
\* variable no environment binds is an opaque value.
Closure(term, env) == [term |-> term, env |-> env]

EmptyEnv == [nam \in {} |-> 0]

\* Weak head reduction, call by name, of term applied to the closures on args.
\* References in stops are not unfolded.  The result names the head reached and
\* the arguments left.
RECURSIVE Run(_, _, _, _, _, _)
Run(bk, term, env, args, stops, fuel) ==
  IF fuel = 0 THEN [kind |-> "fuel", head |-> "", args |-> args]
  ELSE CASE term.t = "App" ->
              Run(bk, term.fun, env, <<Closure(term.arg, env)>> \o args, stops, fuel - 1)
         [] term.t = "Lam" ->
              IF args = <<>>
                THEN [kind |-> "lam", head |-> "", args |-> args]
                ELSE Run(bk, term.bod, (term.nam :> Head(args)) @@ env, Tail(args),
                         stops, fuel - 1)
         [] term.t = "Var" ->
              IF term.nam \in DOMAIN env
                THEN Run(bk, env[term.nam].term, env[term.nam].env, args, stops, fuel - 1)
                ELSE [kind |-> "var", head |-> term.nam, args |-> args]
         [] term.t = "Ref" ->
              IF term.nam \in stops \/ term.nam \notin DOMAIN bk
                THEN [kind |-> "ref", head |-> term.nam, args |-> args]
                ELSE Run(bk, bk[term.nam].rules[1].body, EmptyEnv, args, stops, fuel - 1)
         [] OTHER -> [kind |-> "era", head |-> "", args |-> args]

\* The continuations a value of the ADT is probed with, one per constructor.
Probes(adt) == [i \in 1..Len(Adts[adt]) |-> Closure(TermVar("#" \o Adts[adt][i].nam), EmptyEnv)]

\* What a closure denotes when it is an opaque value: its name, "?" otherwise.
ReadField(bk, clo) ==
  LET r == Run(bk, clo.term, clo.env, <<>>, {}, MaxSteps)
  IN [c |-> IF r.kind = "var" /\ r.args = <<>> THEN r.head ELSE "?", fs |-> <<>>]

\* What a closure denotes: an opaque value, or a Scott-encoded constructor of
\* the ADT with the values of its fields.
ReadValue(bk, clo) ==
  LET r == Run(bk, clo.term, clo.env, <<>>, {}, MaxSteps)
      s == Run(bk, clo.term, clo.env, Probes("List"), {}, MaxSteps)
  IN IF r.kind = "var" /\ r.args = <<>> THEN [c |-> r.head, fs |-> <<>>]
     ELSE IF r.kind = "lam" /\ s.kind = "var" /\ s.head \in {"#" \o c : c \in CtrNames("List")}
       THEN [c |-> s.head, fs |-> [m \in 1..Len(s.args) |-> ReadField(bk, s.args[m])]]
     ELSE [c |-> "?", fs |-> <<>>]

\* The argument passed at position j (0-based): constructor ctr of the ADT
\* applied to opaque fields, built by the constructor's wrapper.
ArgFields(j, ctr) == [m \in 1..CtrArity("List", ctr) |-> "v" \o Str(j) \o "f" \o Str(m - 1)]

ArgTerm(j, ctr) == AppNames(TermRef(ctr), ArgFields(j, ctr), 1)

ArgValue(j, ctr) ==
  [c |-> "#" \o ctr, fs |-> [m \in 1..CtrArity("List", ctr) |->
                               [c |-> ArgFields(j, ctr)[m], fs |-> <<>>]]]

\* First-match evaluation of the original rules on a tuple of constructors:
\* the body of the first rule whose patterns all match, and the values its
\* pattern variables are bound to, left to right.
FirstMatch(shape, tuple) ==
  LET S == {i \in 1..Len(shape) : RuleMatches(shape[i], tuple)}
  IN IF S = {} THEN 0 ELSE CHOOSE i \in S : \A h \in S : i <= h

RECURSIVE Bindings(_, _, _)
Bindings(choices, tuple, j) ==
  IF j > Len(choices) THEN <<>>
  ELSE (IF choices[j] = "Var" THEN <<ArgValue(j - 1, tuple[j])>>
        ELSE ArgValue(j - 1, tuple[j]).fs)
       \o Bindings(choices, tuple, j + 1)

Reference(def_name, shape, tuple) ==
  LET i == FirstMatch(shape, tuple)
  IN IF i = 0 THEN [head |-> "none", binds |-> <<>>]
     ELSE [head |-> BodyName(def_name, i - 1), binds |-> Bindings(shape[i], tuple, 1)]

\* The compiled definition applied to the same arguments, left to right.
RECURSIVE AppArgs(_, _, _)
AppArgs(term, tuple, j) ==
  IF j > Len(tuple) THEN term
  ELSE AppArgs(TermApp(term, ArgTerm(j - 1, tuple[j])), tuple, j + 1)

Compiled(bk, def_name, tuple) ==
  LET r == Run(bk, AppArgs(TermRef(def_name), tuple, 1), EmptyEnv, <<>>, {}, MaxSteps)
  IN [head |-> IF r.kind = "var" THEN r.head ELSE "?",
      binds |-> [m \in 1..Len(r.args) |-> ReadValue(bk, r.args[m])]]

\* C2: once the pass has finished, every definition applied to every tuple of
\* Scott-encoded arguments reaches the body of the rule first-match evaluation
\* selects, with the same values bound to the rule's pattern variables.
C2_Equivalence ==
  status = "done" =>
    \A d \in {"f", "g"} : \A tuple \in Tuples(Len(orig[d][1])) :
      Compiled(book, d, tuple) = Reference(d, orig[d], tuple)

(***************************************************************************)
(* Reading installed terms                                                 *)
(***************************************************************************)
RECURSIVE Refs(_)
Refs(term) ==
  CASE term.t = "Ref" -> {term.nam}
    [] term.t = "Lam" -> Refs(term.bod)
    [] term.t = "App" -> Refs(term.fun) \cup Refs(term.arg)
    [] OTHER -> {}

RECURSIVE StripLams(_)
StripLams(term) == IF term.t = "Lam" THEN StripLams(term.bod) ELSE term

\* The head of an application chain and its arguments, left to right.
RECURSIVE SpineHead(_)
SpineHead(term) == IF term.t = "App" THEN SpineHead(term.fun) ELSE term

RECURSIVE SpineArgs(_)
SpineArgs(term) == IF term.t = "App" THEN Append(SpineArgs(term.fun), term.arg) ELSE <<>>

Body(bk, nam) == bk[nam].rules[1].body

Installed(e) == e.op \in {"leaf", "branch", "pass"} /\ e.how # "panic"

LogOf(op) == {i \in 1..Len(log) : log[i].op = op /\ log[i].how # "panic"}

\* A tuple of constructors agrees with a committed match path.
Agrees(match_path, tuple) ==
  \A j \in 1..Len(match_path) : match_path[j].k = "Ctr" => tuple[j] = match_path[j].nam

\* The number of variables a match path stands for.
RECURSIVE PathVarCount(_, _)
PathVarCount(match_path, j) ==
  IF j > Len(match_path) THEN 0 ELSE PatVars(match_path[j]) + PathVarCount(match_path, j + 1)

RECURSIVE IsSubSeq(_, _)
IsSubSeq(s, t) ==
  IF s = <<>> THEN TRUE
  ELSE IF t = <<>> THEN FALSE
  ELSE IF Head(s) = Head(t) THEN IsSubSeq(Tail(s), Tail(t))
  ELSE IsSubSeq(s, Tail(t))

(***************************************************************************)
(* Claims                                                                  *)
(***************************************************************************)
\* C1: every leaf the driver installs forwards to the lowest-indexed original
\* rule whose patterns match: for every tuple of constructors that agrees with
\* the leaf's committed match path, the rule body the leaf's term refers to is
\* the body of the first rule, top to bottom, whose patterns all match the tuple.
C1_FirstMatchPrecedence ==
  \A i \in LogOf("leaf") :
    \A tuple \in Tuples(Len(orig[log[i].def][1])) :
      Agrees(log[i].path, tuple) =>
        /\ FirstMatch(orig[log[i].def], tuple) = log[i].rule + 1
        /\ SpineHead(StripLams(Body(book, log[i].name))) =
             TermRef(make_rule_name(log[i].def, FirstMatch(orig[log[i].def], tuple) - 1))

\* A leaf below a constructor branch that forwards to a rule other than rule 0.
C1_Witness ==
  \E i \in LogOf("leaf") :
    /\ log[i].rule > 0
    /\ \E j \in 1..Len(log[i].path) : log[i].path[j].k = "Ctr"

\* C3: after the pass has run, every rule of every definition of the program
\* has an empty pattern list, and every original matching definition has
\* exactly one rule.
C3_ArityInvariant ==
  status = "done" =>
    /\ \A nam \in DOMAIN book : \A r \in 1..Len(book[nam].rules) :
         book[nam].rules[r].pats = <<>>
    /\ \A nam \in DOMAIN def_types :
         is_matching_def(def_types[nam]) => Len(book[nam].rules) = 1

\* The pass finished on a two-rule matching definition and a definition that
\* does not match, with leaf, branch and pass-through definitions generated.
C3_Witness ==
  /\ status = "done"
  /\ Len(orig.f) > 1
  /\ ~is_matching_def(def_types["g"])
  /\ LogOf("leaf") # {} /\ LogOf("branch") # {} /\ LogOf("pass") # {}

\* C4: no rule-body insertion meets a name the table already holds, no name is
\* installed twice, and add_case_to_book takes its overwrite arm only for the
\* name of the original definition being compiled.
C4_UniqueNames ==
  /\ \A i \in 1..Len(log) : log[i].how # "collision"
  /\ \A i, j \in 1..Len(log) : i # j => log[i].name # log[j].name
  /\ \A i \in 1..Len(log) :
       log[i].how = "overwrite" => log[i].name = log[i].def /\ log[i].name \in DOMAIN orig
  /\ \A i \in 1..Len(log) :
       log[i].how = "insert" => log[i].name \notin {"Nil", "Cons", "f", "g"}

\* Both definitions were compiled as matching definitions: rule bodies,
\* sub-functions and the two overwrites of the original names are in the log.
C4_Witness ==
  /\ status = "done"
  /\ \E i, j \in 1..Len(log) :
       /\ log[i].how = "overwrite" /\ log[i].name = "f"
       /\ log[j].how = "overwrite" /\ log[j].name = "g"
  /\ \E i \in LogOf("branch") : log[i].how = "insert"
  /\ LogOf("pass") # {}

\* C5: for every dispatcher the branch builder installs at N for a parameter of
\* ADT type T, every constructor C of T has exactly one installed sub-function
\* N$P<C>, and the dispatcher applies its scrutinee to references to these
\* sub-functions in T's constructor order.
C5_ConstructorCompleteness ==
  \A i \in LogOf("branch") :
    LET e == log[i]
        ctrs == Adts[def_types[e.def][Len(e.path) + 1].nam]
        spine == StripLams(Body(book, e.name))
    IN /\ \A c \in 1..Len(ctrs) :
            Cardinality({h \in 1..Len(log) :
                           /\ Installed(log[h])
                           /\ log[h].name = make_next_fn_name(e.name, ctrs[c].nam)}) = 1
       /\ SpineHead(spine) = TermVar("x")
       /\ Len(SpineArgs(spine)) >= Len(ctrs)
       /\ \A c \in 1..Len(ctrs) :
            SpineArgs(spine)[c] = TermRef(make_next_fn_name(e.name, ctrs[c].nam))

\* A dispatcher was installed although one live rule only names one of the two
\* constructors at the branch position and no live rule names the other.
C5_Witness ==
  \E i \in LogOf("branch") :
    LET e == log[i]
        named == {orig[e.def][e.rules[r] + 1][Len(e.path) + 1] : r \in 1..Len(e.rules)}
    IN Cardinality(named \cap CtrNames("List")) = 1

\* C6: a pass that meets, at a position the branch builder discriminates, a
\* live rule whose pattern names a constructor the parameter's ADT does not
\* have never finishes normally.
C6_UnknownCtrIsFatal ==
  status = "done" =>
    \A i \in LogOf("branch") :
      \A r \in 1..Len(log[i].rules) :
        orig[log[i].def][log[i].rules[r] + 1][Len(log[i].path) + 1]
          \in {"Var"} \cup CtrNames(def_types[log[i].def][Len(log[i].path) + 1].nam)

\* C7, state part: while a call of the driver or the tail of a builder is
\* pending, every rule-body definition of the definition being compiled resolves.
C7_RuleBodiesFirst ==
  stack # <<>> =>
    \A i \in 1..Len(orig[crnt_def]) : make_rule_name(crnt_def, i - 1) \in DOMAIN book

\* C7, step part: a step in which the leaf, branch or pass-through builder
\* installs a term only installs references that resolved before the step.
C7_InstallStep ==
  (Len(log') = Len(log) + 1 /\ Installed(log'[Len(log')])) =>
    Refs(Body(book', log'[Len(log')].name)) \subseteq DOMAIN book

\* C7: every reference inside a term the leaf, branch or pass-through builder
\* installs names a definition that already resolves when the term is
\* installed; all rule bodies are inserted before the driver starts and all
\* sub-functions before their dispatcher.
C7_InstallBeforeReference == []C7_RuleBodiesFirst /\ [][C7_InstallStep]_vars

\* A run that installed a dispatcher, a pass-through and a leaf that rebuilds a
\* constructor through its wrapper.
C7_Witness ==
  /\ LogOf("branch") # {} /\ LogOf("pass") # {}
  /\ \E i \in LogOf("leaf") : Refs(Body(book, log[i].name)) \cap {"Nil", "Cons"} # {}

\* C8: every installed dispatcher, applied to a scrutinee built by constructor
\* C and then to the values of its committed path, calls sub-function N$P<C>
\* with the path values in position order followed by the fields of C.
C8_ArgumentAgreement ==
  \A i \in LogOf("branch") :
    LET e == log[i]
        ctrs == Adts[def_types[e.def][Len(e.path) + 1].nam]
        pathv == [m \in 1..PathVarCount(e.path, 1) |-> "q" \o Str(m - 1)]
    IN \A c \in 1..Len(ctrs) :
         LET sub == make_next_fn_name(e.name, ctrs[c].nam)
             fields == [m \in 1..ctrs[c].ari |-> "w" \o Str(m - 1)]
             scrutinee == AppNames(TermRef(ctrs[c].nam), fields, 1)
             call == AppNames(TermApp(TermRef(e.name), scrutinee), pathv, 1)
             r == Run(book, call, EmptyEnv, <<>>, {sub}, MaxSteps)
         IN /\ r.kind = "ref" /\ r.head = sub
            /\ [m \in 1..Len(r.args) |-> ReadField(book, r.args[m]).c] = pathv \o fields

\* C9: in every call of the leaf builder, a Var on the committed path faces a
\* Var of the selected rule, two constructors facing each other are the same
\* constructor, and the unreachable!() arm of line 161 is never taken.
C9_MirrorCaseUnreachable ==
  /\ status # "unreachable:161"
  /\ \A i \in 1..Len(log) : log[i].op = "leaf" =>
       \A j \in 1..Len(log[i].path) :
         LET choice == orig[log[i].def][log[i].rule + 1][j]
         IN /\ log[i].path[j].k = "Var" => choice = "Var"
            /\ (log[i].path[j].k = "Ctr" /\ choice # "Var") => choice = log[i].path[j].nam

\* A leaf whose path holds a Var (from a pass-through) and a constructor the
\* selected rule names itself.
C9_Witness ==
  \E i \in LogOf("leaf") :
    /\ \E j \in 1..Len(log[i].path) : log[i].path[j].k = "Var"
    /\ \E j \in 1..Len(log[i].path) :
         log[i].path[j].k = "Ctr" /\ orig[log[i].def][log[i].rule + 1][j] # "Var"

\* C10: every pending call of the driver holds a non-empty crnt_rules that is
\* an order-preserving sub-list of its caller's, and the pass never fails on
\* crnt_rules[0].
C10_LiveRulesNonEmpty ==
  /\ status # "index:89"
  /\ \A i \in 1..Len(stack) : stack[i].op = "case" =>
       stack[i].rules # <<>> /\ IsSubSeq(stack[i].rules, stack[i].from)

\* A pending call of the driver whose live rules were narrowed by the branch builder.
C10_Witness ==
  \E i \in 1..Len(stack) :
    stack[i].op = "case" /\ Len(stack[i].rules) < Len(stack[i].from) /\ Len(stack[i].path) > 1

====
